---- MODULE Spec2Model ----
(***************************************************************************)
(* DJ PH live coding music: the pattern compiler (PatternParser), the step *)
(* sequencer (Sequencer, on top of the Tone.js transport) and the App that *)
(* drives them from the play / pause / stop buttons and the code editor.   *)
(*                                                                         *)
(* Text is a sequence of one-character strings.  A Pattern Set             *)
(* (ParsedPattern) is a function from the tracks present to their token    *)
(* sequences; a token is a sequence of characters.                         *)
(***************************************************************************)
EXTENDS Integers, Sequences, FiniteSets, TLC

\* ------------------------------------------------------------------ bounds
MaxTicks == 4      \* ticks the audio clock delivers before the transport is stopped again
MaxPending == 2    \* start() calls that may await the audio context at the same time
MaxLive == 2       \* loops that may exist at the same time (only mutants exceed one)
MaxDraws == 1      \* step notifications that may wait for an animation frame
MaxLines == 3      \* lines of a source text given to the parser on its own
MaxDispatchLines == 2  \* lines of a source text playStep is called on on its own
MaxStep == 3       \* largest step playStep is called for on its own

\* the audio times playStep is called with on its own
DispatchTimes == {0, 5}

\* ------------------------------------------------------------- characters
Upper == <<"A","B","C","D","E","F","G","H","I","J","K","L","M",
           "N","O","P","Q","R","S","T","U","V","W","X","Y","Z">>
Lower == <<"a","b","c","d","e","f","g","h","i","j","k","l","m",
           "n","o","p","q","r","s","t","u","v","w","x","y","z">>

\* String.prototype.toLowerCase on one character
ToLowerChar(c) ==
  IF \E i \in 1..26 : Upper[i] = c
  THEN Lower[CHOOSE i \in 1..26 : Upper[i] = c]
  ELSE c

ToLower(s) == [i \in 1..Len(s) |-> ToLowerChar(s[i])]

\* the regular expression class \s, and the characters '.' does not match
IsSpace(c) == c \in {" ", "\t", "\r", "\n"}
LineTerminator == {"\n", "\r"}

\* String.prototype.trim
RECURSIVE TrimLeft(_)
TrimLeft(s) ==
  IF s = << >> THEN << >>
  ELSE IF IsSpace(Head(s)) THEN TrimLeft(Tail(s)) ELSE s

RECURSIVE TrimRight(_)
TrimRight(s) ==
  IF s = << >> THEN << >>
  ELSE IF IsSpace(s[Len(s)]) THEN TrimRight(SubSeq(s, 1, Len(s) - 1)) ELSE s

Trim(s) == TrimRight(TrimLeft(s))

StartsWith(s, p) == Len(s) >= Len(p) /\ SubSeq(s, 1, Len(p)) = p

\* code.split('\n')
RECURSIVE SplitLines(_)
SplitLines(s) ==
  IF \A i \in 1..Len(s) : s[i] # "\n" THEN <<s>>
  ELSE LET i == CHOOSE k \in 1..Len(s) :
                  s[k] = "\n" /\ \A j \in 1..(k - 1) : s[j] # "\n"
       IN  <<SubSeq(s, 1, i - 1)>> \o SplitLines(SubSeq(s, i + 1, Len(s)))

\* notesString.split(' '): one space separates, empty pieces are kept
RECURSIVE SplitNotes_OnSpace(_)
SplitNotes_OnSpace(s) ==
  IF \A i \in 1..Len(s) : s[i] # " " THEN <<s>>
  ELSE LET i == CHOOSE k \in 1..Len(s) :
                  s[k] = " " /\ \A j \in 1..(k - 1) : s[j] # " "
       IN  <<SubSeq(s, 1, i - 1)>> \o SplitNotes_OnSpace(SubSeq(s, i + 1, Len(s)))

\* notesString.split(/\s+/).filter(n => n.length > 0)
RECURSIVE SplitNotes(_)
SplitNotes(s) ==
  LET t == TrimLeft(s) IN
  IF t = << >> THEN << >>
  ELSE LET n == IF \E k \in 1..Len(t) : IsSpace(t[k])
                THEN (CHOOSE k \in 1..Len(t) :
                        IsSpace(t[k]) /\ \A j \in 1..(k - 1) : ~IsSpace(t[j])) - 1
                ELSE Len(t)
       IN  <<SubSeq(t, 1, n)>> \o SplitNotes(SubSeq(t, n + 1, Len(t)))

\* ------------------------------------------------------------ PatternParser
TrackWord(tr) ==
  CASE tr = "drums" -> <<"d","r","u","m","s">>
    [] tr = "bass"  -> <<"b","a","s","s">>
    [] tr = "synth" -> <<"s","y","n","t","h">>

Rest == <<"-">>
CommentMarker == <<"/", "/">>

\* line.match(/^(drums|bass|synth)\s*:\s*(.+)$/i): the track matched and the
\* text of group 2, or NoMatch
NoMatch == [track |-> "none", notes |-> << >>]

\* the line pattern without its i flag
MatchTrack_CaseSensitive(line, tr) ==
  LET w    == TrackWord(tr)
      body == SubSeq(line, Len(w) + 1, Len(line))
      afterName == TrimLeft(body)
      r    == IF afterName = << >> THEN << >> ELSE Tail(afterName)
  IN  IF /\ Len(line) >= Len(w)
         /\ SubSeq(line, 1, Len(w)) = w
         /\ afterName # << >>
         /\ Head(afterName) = ":"
         /\ \E k \in 0..(Len(r) - 1) :
              /\ \A i \in 1..k : IsSpace(r[i])
              /\ \A i \in (k + 1)..Len(r) : r[i] \notin LineTerminator
      THEN [track |-> tr, notes |-> r]
      ELSE NoMatch

MatchTrack(line, tr) ==
  LET w    == TrackWord(tr)
      body == SubSeq(line, Len(w) + 1, Len(line))
      afterName == TrimLeft(body)
      r    == IF afterName = << >> THEN << >> ELSE Tail(afterName)
  IN  IF /\ Len(line) >= Len(w)
         /\ ToLower(SubSeq(line, 1, Len(w))) = w
         /\ afterName # << >>
         /\ Head(afterName) = ":"
         /\ \E k \in 0..(Len(r) - 1) :
              /\ \A i \in 1..k : IsSpace(r[i])
              /\ \A i \in (k + 1)..Len(r) : r[i] \notin LineTerminator
      THEN [track |-> tr, notes |-> r]
      ELSE NoMatch

\* the line pattern applied to the trimmed line
LineMatch_Trimmed(line) ==
  IF MatchTrack(Trim(line), "drums") # NoMatch THEN MatchTrack(Trim(line), "drums")
  ELSE IF MatchTrack(Trim(line), "bass") # NoMatch THEN MatchTrack(Trim(line), "bass")
  ELSE MatchTrack(Trim(line), "synth")

LineMatch(line) ==
  IF MatchTrack(line, "drums") # NoMatch THEN MatchTrack(line, "drums")
  ELSE IF MatchTrack(line, "bass") # NoMatch THEN MatchTrack(line, "bass")
  ELSE MatchTrack(line, "synth")

\* the for loop of a parser that keeps the first line of every track
RECURSIVE ParseLines_FirstWins(_, _)
ParseLines_FirstWins(lines, patterns) ==
  IF lines = << >> THEN patterns
  ELSE LET line == Head(lines)
           m    == LineMatch(line)
           next == IF Trim(line) = << >> THEN patterns
                   ELSE IF StartsWith(Trim(line), CommentMarker) THEN patterns
                   ELSE IF m = NoMatch THEN patterns
                   ELSE IF m.track \in DOMAIN patterns THEN patterns
                   ELSE [tr \in (DOMAIN patterns) \cup {m.track} |->
                           IF tr = m.track THEN SplitNotes(Trim(m.notes))
                           ELSE patterns[tr]]
       IN  ParseLines_FirstWins(Tail(lines), next)

\* the body of parse's for loop, folded over the lines left to right
RECURSIVE ParseLines(_, _)
ParseLines(lines, patterns) ==
  IF lines = << >> THEN patterns
  ELSE LET line == Head(lines)
           m    == LineMatch(line)
           next == IF Trim(line) = << >> THEN patterns
                   ELSE IF StartsWith(Trim(line), CommentMarker) THEN patterns
                   ELSE IF m = NoMatch THEN patterns
                   ELSE [tr \in (DOMAIN patterns) \cup {m.track} |->
                           IF tr = m.track THEN SplitNotes(Trim(m.notes))
                           ELSE patterns[tr]]
       IN  ParseLines(Tail(lines), next)

EmptyPatterns == [tr \in {} |-> << >>]

parse(code) == ParseLines(SplitLines(code), EmptyPatterns)

Max(a, b) == IF a >= b THEN a ELSE b

\* getMaxPatternLength without Math.max: the last track present decides
getMaxPatternLength_LastTrack(patterns) ==
  LET d == IF "drums" \in DOMAIN patterns THEN Len(patterns["drums"]) ELSE 0
      b == IF "bass"  \in DOMAIN patterns THEN Len(patterns["bass"]) ELSE d
      s == IF "synth" \in DOMAIN patterns THEN Len(patterns["synth"]) ELSE b
  IN  s

getMaxPatternLength(patterns) ==
  LET d == IF "drums" \in DOMAIN patterns THEN Max(0, Len(patterns["drums"])) ELSE 0
      b == IF "bass"  \in DOMAIN patterns THEN Max(d, Len(patterns["bass"])) ELSE d
      s == IF "synth" \in DOMAIN patterns THEN Max(b, Len(patterns["synth"])) ELSE b
  IN  s

\* the names in validDrums
ValidDrums ==
  {<<"k","i","c","k">>, <<"s","n","a","r","e">>, <<"h","i","h","a","t">>,
   <<"c","l","a","p">>}

\* the classes of /^[A-Ga-g][#b]?[0-8]$/
NoteLetters == {"A","B","C","D","E","F","G","a","b","c","d","e","f","g"}
Accidentals == {"#", "b"}
Octaves == {"0","1","2","3","4","5","6","7","8"}

isValidNote(note, instrument) ==
  IF note = Rest THEN TRUE
  ELSE IF instrument = "drums" THEN ToLower(note) \in ValidDrums
  ELSE \/ /\ Len(note) = 2
          /\ note[1] \in NoteLetters
          /\ note[2] \in Octaves
       \/ /\ Len(note) = 3
          /\ note[1] \in NoteLetters
          /\ note[2] \in Accidentals
          /\ note[3] \in Octaves

\* ------------------------------------------------------------------ texts
\* the texts the editor is given: "", "piano: C4", "drums: kick - snare"
\* and "Bass: C2 E2\nsynth: C4"
TextEmpty == << >>
TextUnknown == <<"p","i","a","n","o",":"," ","C","4">>
TextDrums == <<"d","r","u","m","s",":"," ","k","i","c","k"," ","-"," ",
               "s","n","a","r","e">>
TextBassSynth == <<"B","a","s","s",":"," ","C","2"," ","E","2","\n",
                   "s","y","n","t","h",":"," ","C","4">>
EditorTexts == {TextEmpty, TextUnknown, TextDrums, TextBassSynth}

\* the positions of the tempo slider that are tried
Tempos == {120, 90}

\* -------------------------------------------------------------------- state
VARIABLES
  patterns,        \* Sequencer.patterns
  currentStep,     \* Sequencer.currentStep
  maxSteps,        \* Sequencer.maxSteps
  sequence,        \* Sequencer.sequence: a loop, or NoSequence for null
  transportState,  \* Tone.Transport.state
  position,        \* Tone.Transport position, in eighth notes
  bpm,             \* Tone.Transport.bpm.value
  loops,           \* the Tone.Sequence objects created and not disposed
  starts,          \* start() calls suspended at "await Tone.start()", oldest first
  editor,          \* App.codeEditor.value
  isPlaying,       \* App.isPlaying
  isPaused,        \* App.isPaused
  status,          \* the last status given to UIController.updateStatus
  playDisabled,    \* App.playBtn.disabled
  pauseDisabled,   \* App.pauseBtn.disabled
  errorShown,      \* UIController.showError wrote over the status text
  onStepCallback,  \* Sequencer.onStepCallback is set
  draws,           \* the callbacks given to Tone.Draw.schedule, oldest first, each
                   \* with its step and (history) the Pattern Set of its tick
  op,              \* history: the operation that produced this state
  lastTick,        \* history: what the last tick dispatched
  hist             \* history: what was requested of the sequencer since (see NoHist)

sqVars == <<patterns, currentStep, maxSteps, sequence, transportState, position,
            bpm, loops, starts>>
appVars == <<editor, isPlaying, isPaused, status, playDisabled, pauseDisabled,
            errorShown>>
drawVars == <<onStepCallback, draws>>
histVars == <<op, lastTick, hist>>
vars == <<sqVars, appVars, drawVars, histVars>>

NoSequence == [id |-> 0, len |-> 0, from |-> EmptyPatterns]

\* history of the requests made of the sequencer:
\*   halted   stop() or pause() has returned and no start(), resume() or live
\*            swap was requested since
\*   swapped  a live swap was made and no tick was dispatched since
\*   ticked   the installed loop has dispatched a tick
\*   pair     "paused" after pause() from Running, "resumed" after the resume()
\*            from Paused that follows it, "no" after a tick, a stop or a new loop
\*   text     the text last handed to the sequencer
NoHist == [halted |-> FALSE, swapped |-> FALSE, ticked |-> FALSE, pair |-> "no",
           text |-> TextEmpty]

\* what a tick dispatched: the number of loops that fired for the position,
\* the step, the Pattern Set read, the loop, the audio engine calls, the
\* history before the tick and the step before it when the tick is the first
\* after a pause / resume pair (-1 otherwise)
NoTick == [count |-> 0, step |-> 0, pats |-> EmptyPatterns, loop |-> NoSequence,
           calls |-> << >>, triggers |-> << >>, time |-> 0, hist |-> NoHist,
           prev |-> -1]

\* the operation that produced a state, with the transport state, the step
\* index and the tempo it was called in
NoOp == [name |-> "init", was |-> "stopped", step |-> 0, bpm |-> 120]

\* the Sequencer and the Tone.js objects it drives, as one record
Cur ==
  [patterns |-> patterns, currentStep |-> currentStep, maxSteps |-> maxSteps,
   sequence |-> sequence, transportState |-> transportState,
   position |-> position, bpm |-> bpm, loops |-> loops, starts |-> starts]

Becomes(s) ==
  /\ patterns' = s.patterns
  /\ currentStep' = s.currentStep
  /\ maxSteps' = s.maxSteps
  /\ sequence' = s.sequence
  /\ transportState' = s.transportState
  /\ position' = s.position
  /\ bpm' = s.bpm
  /\ loops' = s.loops
  /\ starts' = s.starts

\* ------------------------------------------------------------------ Tone.js
\* Tone.Transport.start(): a stopped transport starts at position 0, a
\* paused one goes on from where it was, a started one is left alone
TransportStart(s) == [s EXCEPT !.transportState = "started"]

\* Tone.Transport.pause(): only a started transport is paused
TransportPause(s) ==
  IF s.transportState = "started" THEN [s EXCEPT !.transportState = "paused"]
  ELSE s

\* Tone.Transport.stop(): the position goes back to 0
TransportStop(s) == [s EXCEPT !.transportState = "stopped", !.position = 0]

\* Tone.Sequence.dispose(): the events of the loop are cancelled
Dispose(s, l) == [s EXCEPT !.loops = @ \ {l}]

\* new Tone.Sequence(callback, [0 .. maxSteps-1], '8n') and sequence.start(0)
NewLoop(s) ==
  [id   |-> CHOOSE n \in 1..(Cardinality(s.loops) + 1) :
              /\ \A l \in s.loops : l.id # n
              /\ \A m \in 1..(n - 1) : \E l \in s.loops : l.id = m,
   len  |-> s.maxSteps,
   from |-> s.patterns]

\* ---------------------------------------------------------------- Sequencer
isPlaying_(s) == s.transportState = "started"

\* stop() that forgets the loop it holds without disposing it
stop_LeavesLoop(s) ==
  [TransportStop(s) EXCEPT !.sequence = NoSequence, !.currentStep = 0]

stop(s) ==
  LET t == TransportStop(s)
      u == IF t.sequence # NoSequence
           THEN [Dispose(t, t.sequence) EXCEPT !.sequence = NoSequence]
           ELSE t
  IN  [u EXCEPT !.currentStep = 0]

\* start() that installs the loop and starts the transport without awaiting
\* the audio context
start_NoAwait(s, kind) ==
  IF s.maxSteps = 0 THEN s
  ELSE LET d == IF s.sequence # NoSequence THEN Dispose(s, s.sequence) ELSE s
           r == [d EXCEPT !.currentStep = 0]
           l == NewLoop(r)
       IN  TransportStart([r EXCEPT !.sequence = l, !.loops = @ \cup {l}])

\* start() up to its await: the call is suspended until the audio context
\* is activated
start(s, kind) == [s EXCEPT !.starts = Append(@, kind)]

\* start() after its await, without the disposal of the loop it replaces
startResumed_NoDispose(s) ==
  IF s.maxSteps = 0 THEN s
  ELSE LET r == [s EXCEPT !.currentStep = 0]
           l == NewLoop(r)
       IN  TransportStart([r EXCEPT !.sequence = l, !.loops = @ \cup {l}])

\* start() after its await
startResumed(s) ==
  IF s.maxSteps = 0 THEN s
  ELSE LET d == IF s.sequence # NoSequence THEN Dispose(s, s.sequence) ELSE s
           r == [d EXCEPT !.currentStep = 0]
           l == NewLoop(r)
       IN  TransportStart([r EXCEPT !.sequence = l, !.loops = @ \cup {l}])

updatePatterns(s, code) ==
  LET p == parse(code)
      u == [s EXCEPT !.patterns = p, !.maxSteps = getMaxPatternLength(p)]
  IN  IF isPlaying_(u) THEN start(stop(u), "restart") ELSE u

\* pause() that also rewinds the step counter and the transport position
pause_Rewinds(s) == [TransportPause(s) EXCEPT !.currentStep = 0, !.position = 0]

pause(s) == TransportPause(s)

resume(s) == TransportStart(s)

\* setTempo() that also rewinds the transport to the start of the cycle
setTempo_Rewinds(s, b) == [s EXCEPT !.bpm = b, !.position = 0, !.currentStep = 0]

setTempo(s, b) == [s EXCEPT !.bpm = b]

\* the call playStep makes for one track: none when the track is absent, the
\* step lies beyond the end of its Pattern, or the token there is a rest
TrackCall(pats, tr, method, step, time) ==
  IF tr \in DOMAIN pats /\ step < Len(pats[tr])
  THEN IF pats[tr][step + 1] # Rest
       THEN <<[method |-> method, note |-> pats[tr][step + 1], time |-> time]>>
       ELSE << >>
  ELSE << >>

\* playStep that wraps a Pattern shorter than the cycle around
playStep_Wraps(pats, step, time) ==
  LET At(tr) == IF tr \in DOMAIN pats /\ Len(pats[tr]) > 0
                THEN step % Len(pats[tr]) ELSE step
  IN TrackCall(pats, "drums", "playDrum", At("drums"), time)
     \o TrackCall(pats, "bass", "playBass", At("bass"), time)
     \o TrackCall(pats, "synth", "playSynth", At("synth"), time)

\* the calls playStep makes on the audio engine for one step, in order
playStep(pats, step, time) ==
  TrackCall(pats, "drums", "playDrum", step, time)
  \o TrackCall(pats, "bass", "playBass", step, time)
  \o TrackCall(pats, "synth", "playSynth", step, time)

\* -------------------------------------------------------------- AudioEngine
\* the keys of the drums map
DrumKit ==
  {<<"k","i","c","k">>, <<"s","n","a","r","e">>, <<"h","i","h","a","t">>,
   <<"c","l","a","p">>}

\* an instrument is triggered: triggerAttackRelease is called on it
Trigger(track, note, time) == <<[track |-> track, note |-> note, time |-> time]>>

\* playDrum that looks the name up as it is written
playDrum_CaseSensitive(drumType, time) ==
  IF drumType \in DrumKit THEN Trigger("drums", drumType, time) ELSE << >>

playDrum(drumType, time) ==
  IF ToLower(drumType) \in DrumKit THEN Trigger("drums", drumType, time) ELSE << >>

playBass(note, time) ==
  IF note # Rest THEN Trigger("bass", note, time) ELSE << >>

playSynth(note, time) ==
  IF note # Rest THEN Trigger("synth", note, time) ELSE << >>

\* the instruments a sequence of audio engine calls triggers, in order
RECURSIVE Triggers(_)
Triggers(calls) ==
  IF calls = << >> THEN << >>
  ELSE LET c == Head(calls)
           t == CASE c.method = "playDrum"  -> playDrum(c.note, c.time)
                  [] c.method = "playBass"  -> playBass(c.note, c.time)
                  [] c.method = "playSynth" -> playSynth(c.note, c.time)
       IN  t \o Triggers(Tail(calls))

Fits(s) == Len(s.starts) <= MaxPending /\ Cardinality(s.loops) <= MaxLive

\* ------------------------------------------------------------------ history
hStop(h) == [h EXCEPT !.halted = TRUE, !.ticked = FALSE, !.pair = "no"]

hPause(h, s) ==
  [h EXCEPT !.halted = TRUE,
            !.pair = IF s.transportState = "started" THEN "paused" ELSE @]

hResume(h, s) ==
  [h EXCEPT !.halted = FALSE,
            !.pair = IF s.transportState = "paused"
                     THEN (IF @ = "paused" THEN "resumed" ELSE "no")
                     ELSE IF s.transportState = "stopped" THEN "no" ELSE @]

hStart(h) == [h EXCEPT !.halted = FALSE]

hStartResumed(h, s) ==
  IF s.maxSteps = 0 THEN h ELSE [h EXCEPT !.ticked = FALSE, !.pair = "no"]

hUpdatePatterns(h, s, code) ==
  IF s.transportState = "started"
  THEN [h EXCEPT !.halted = FALSE, !.swapped = TRUE, !.ticked = FALSE, !.pair = "no",
                 !.text = code]
  ELSE [h EXCEPT !.text = code]

\* lastTick holds what a tick dispatched only in the state the tick produced
Did(name) ==
  /\ op' = [name |-> name, was |-> transportState, step |-> currentStep,
            bpm |-> bpm]
  /\ lastTick' = NoTick

\* --------------------------------------------------------------------- Init
Init ==
  /\ patterns = EmptyPatterns
  /\ currentStep = 0
  /\ maxSteps = 0
  /\ sequence = NoSequence
  /\ transportState = "stopped"
  /\ position = 0
  /\ bpm = 120
  /\ loops = {}
  /\ starts = << >>
  /\ editor = TextEmpty
  /\ isPlaying = FALSE
  /\ isPaused = FALSE
  /\ status = "stopped"
  /\ playDisabled = FALSE
  /\ pauseDisabled = TRUE
  /\ errorShown = FALSE
  /\ onStepCallback = FALSE
  /\ draws = << >>
  /\ op = NoOp
  /\ lastTick = NoTick
  /\ hist = NoHist

\* ------------------------------------------------- the audio clock (Tone.js)
\* the callback given to Tone.Sequence, run for the step the transport
\* position falls on, once by every loop that is scheduled; with a callback
\* registered it leaves the step notification with Tone.Draw, which runs it
\* in a later animation frame (deferred) or, when nothing else happens before
\* that frame, in the same step
TickStep(deferred) ==
  /\ transportState = "started"
  /\ loops # {}
  /\ position < MaxTicks
  /\ deferred => Len(draws) < MaxDraws
  /\ ~deferred => draws = << >>
  /\ \E l \in loops :
       LET step == position % l.len IN
       /\ currentStep' = step
       /\ lastTick' = [count |-> Cardinality(loops), step |-> step,
                       pats |-> patterns, loop |-> l,
                       calls |-> playStep(patterns, step, position),
                       triggers |-> Triggers(playStep(patterns, step, position)),
                       time |-> position, hist |-> hist,
                       prev |-> IF hist.pair = "resumed" /\ hist.ticked
                                THEN currentStep ELSE -1]
       /\ draws' = IF onStepCallback /\ deferred
                   THEN Append(draws, [step |-> step, pats |-> patterns])
                   ELSE draws
  /\ UNCHANGED onStepCallback
  /\ position' = position + 1
  /\ hist' = [hist EXCEPT !.swapped = FALSE, !.ticked = TRUE, !.pair = "no"]
  /\ op' = [name |-> "tick", was |-> transportState, step |-> currentStep,
            bpm |-> bpm]
  /\ UNCHANGED <<patterns, maxSteps, sequence, transportState, bpm, loops, starts>>
  /\ UNCHANGED appVars

\* a tick whose step notification waits for its animation frame
TickDeferred == TickStep(TRUE)

\* a tick together with the animation frame that delivers its notification
Tick == TickStep(FALSE)

\* the transport runs with nothing scheduled on it
Advance ==
  /\ transportState = "started"
  /\ loops = {}
  /\ position < MaxTicks
  /\ position' = position + 1
  /\ Did("advance")
  /\ UNCHANGED drawVars
  /\ UNCHANGED <<patterns, currentStep, maxSteps, sequence, transportState, bpm,
                 loops, starts>>
  /\ UNCHANGED <<appVars, hist>>

\* an animation frame of Tone.Draw: the oldest callback left with it runs and
\* calls onStepCallback with its step and this.patterns as it is by then
Deliver ==
  /\ draws # << >>
  /\ draws' = Tail(draws)
  /\ UNCHANGED <<sqVars, appVars, onStepCallback, histVars>>

\* a start() that nobody awaits goes on after its await
StartResumed ==
  /\ starts # << >>
  /\ Head(starts) # "play"
  /\ LET s == startResumed([Cur EXCEPT !.starts = Tail(@)]) IN
     /\ Fits(s)
     /\ Becomes(s)
  /\ hist' = hStartResumed(hist, Cur)
  /\ Did("startResumed")
  /\ UNCHANGED drawVars
  /\ UNCHANGED appVars

\* ------------------------------------------------- the Sequencer's interface
CallUpdatePatterns ==
  \E code \in EditorTexts :
    LET s == updatePatterns(Cur, code) IN
    /\ Fits(s)
    /\ Becomes(s)
    /\ hist' = hUpdatePatterns(hist, Cur, code)
    /\ Did("updatePatterns")
    /\ UNCHANGED drawVars
    /\ UNCHANGED appVars

CallStart ==
  LET s == start(Cur, "call") IN
  /\ Fits(s)
  /\ Becomes(s)
  /\ hist' = hStart(hist)
  /\ Did("start")
  /\ UNCHANGED drawVars
  /\ UNCHANGED appVars

CallPause ==
  /\ Becomes(pause(Cur))
  /\ hist' = hPause(hist, Cur)
  /\ Did("pause")
  /\ UNCHANGED drawVars
  /\ UNCHANGED appVars

CallResume ==
  /\ Becomes(resume(Cur))
  /\ hist' = hResume(hist, Cur)
  /\ Did("resume")
  /\ UNCHANGED drawVars
  /\ UNCHANGED appVars

CallStop ==
  /\ Becomes(stop(Cur))
  /\ hist' = hStop(hist)
  /\ Did("stop")
  /\ UNCHANGED drawVars
  /\ UNCHANGED appVars

CallSetTempo ==
  \E b \in Tempos :
    /\ b # bpm
    /\ Becomes(setTempo(Cur, b))
    /\ Did("setTempo")
    /\ UNCHANGED drawVars
    /\ UNCHANGED <<appVars, hist>>

Next ==
  \/ CallUpdatePatterns
  \/ CallStart
  \/ StartResumed
  \/ CallPause
  \/ CallResume
  \/ CallStop
  \/ CallSetTempo
  \/ Tick
  \/ Advance

Spec == Init /\ [][Next]_vars

\* ------------------------------------------------------------------ the App
\* the page as it is loaded, with the pause button disabled or not
AppInitWith(disabled) ==
  /\ patterns = EmptyPatterns
  /\ currentStep = 0
  /\ maxSteps = 0
  /\ sequence = NoSequence
  /\ transportState = "stopped"
  /\ position = 0
  /\ bpm = 120
  /\ loops = {}
  /\ starts = << >>
  /\ editor \in EditorTexts
  /\ isPlaying = FALSE
  /\ isPaused = FALSE
  /\ status = "stopped"
  /\ playDisabled = FALSE
  /\ pauseDisabled = disabled
  /\ errorShown = FALSE
  /\ onStepCallback = TRUE
  /\ draws = << >>
  /\ op = NoOp
  /\ lastTick = NoTick
  /\ hist = NoHist

\* the constructor shows the transport as stopped; the buttons are as
\* App.stop leaves them in that state
AppInit == AppInitWith(TRUE)

\* the constructor does not set the buttons: they are as the page has them
AnyPageInit == \E disabled \in BOOLEAN : AppInitWith(disabled)

\* the end of App.play: the transport is shown as playing
ShowPlaying ==
  /\ isPlaying' = TRUE
  /\ status' = "playing"
  /\ errorShown' = FALSE
  /\ playDisabled' = TRUE
  /\ pauseDisabled' = FALSE

\* App.play when paused: resume
PlayResume ==
  /\ ~playDisabled
  /\ isPaused
  /\ Becomes(resume(Cur))
  /\ isPaused' = FALSE
  /\ ShowPlaying
  /\ hist' = hResume(hist, Cur)
  /\ Did("playResume")
  /\ UNCHANGED drawVars
  /\ UNCHANGED editor

\* App.play with nothing but white space in the editor
PlayNothing ==
  /\ ~playDisabled
  /\ ~isPaused
  /\ Trim(editor) = << >>
  /\ errorShown' = TRUE
  /\ Did("playNothing")
  /\ UNCHANGED drawVars
  /\ UNCHANGED <<sqVars, hist>>
  /\ UNCHANGED <<editor, isPlaying, isPaused, status, playDisabled, pauseDisabled>>

\* App.play up to "await this.sequencer.start()"
PlayStart ==
  /\ ~playDisabled
  /\ ~isPaused
  /\ Trim(editor) # << >>
  /\ LET s == start(updatePatterns(Cur, editor), "play") IN
     /\ Fits(s)
     /\ Becomes(s)
  /\ hist' = hStart(hUpdatePatterns(hist, Cur, editor))
  /\ Did("playStart")
  /\ UNCHANGED drawVars
  /\ UNCHANGED appVars

\* the start() App.play awaits goes on after its await, and App.play after it
PlayResumed ==
  /\ starts # << >>
  /\ Head(starts) = "play"
  /\ LET s == startResumed([Cur EXCEPT !.starts = Tail(@)]) IN
     /\ Fits(s)
     /\ Becomes(s)
  /\ ShowPlaying
  /\ hist' = hStartResumed(hist, Cur)
  /\ Did("playResumed")
  /\ UNCHANGED drawVars
  /\ UNCHANGED <<editor, isPaused>>

\* App.pause
ClickPause ==
  /\ ~pauseDisabled
  /\ Becomes(pause(Cur))
  /\ isPaused' = TRUE
  /\ status' = "paused"
  /\ errorShown' = FALSE
  /\ playDisabled' = FALSE
  /\ pauseDisabled' = TRUE
  /\ hist' = hPause(hist, Cur)
  /\ Did("clickPause")
  /\ UNCHANGED drawVars
  /\ UNCHANGED <<editor, isPlaying>>

\* App.stop
ClickStop ==
  /\ Becomes(stop(Cur))
  /\ isPlaying' = FALSE
  /\ isPaused' = FALSE
  /\ status' = "stopped"
  /\ errorShown' = FALSE
  /\ playDisabled' = FALSE
  /\ pauseDisabled' = TRUE
  /\ hist' = hStop(hist)
  /\ Did("clickStop")
  /\ UNCHANGED drawVars
  /\ UNCHANGED editor

\* the clear button: the text is set by the program, no input event follows
ClickClear ==
  /\ editor # TextEmpty
  /\ editor' = TextEmpty
  /\ Did("clickClear")
  /\ UNCHANGED drawVars
  /\ UNCHANGED <<sqVars, hist>>
  /\ UNCHANGED <<isPlaying, isPaused, status, playDisabled, pauseDisabled, errorShown>>

\* the editor's input handler while playing: App.updatePatterns
InputLive ==
  \E code \in EditorTexts \ {editor} :
    /\ isPlaying /\ ~isPaused
    /\ editor' = code
    /\ LET s == updatePatterns(Cur, code) IN
       /\ Fits(s)
       /\ Becomes(s)
    /\ hist' = hUpdatePatterns(hist, Cur, code)
    /\ Did("inputLive")
    /\ UNCHANGED drawVars
    /\ UNCHANGED <<isPlaying, isPaused, status, playDisabled, pauseDisabled, errorShown>>

\* the editor's input handler compiling the text whatever the App's state
InputStaged_Compiles ==
  \E code \in EditorTexts \ {editor} :
    /\ ~(isPlaying /\ ~isPaused)
    /\ editor' = code
    /\ LET s == updatePatterns(Cur, code) IN
       /\ Fits(s)
       /\ Becomes(s)
    /\ hist' = hist
    /\ Did("inputStaged")
    /\ UNCHANGED drawVars
    /\ UNCHANGED <<isPlaying, isPaused, status, playDisabled, pauseDisabled, errorShown>>

\* the editor's input handler otherwise: the text is left in the editor
InputStaged ==
  \E code \in EditorTexts \ {editor} :
    /\ ~(isPlaying /\ ~isPaused)
    /\ editor' = code
    /\ Did("inputStaged")
    /\ UNCHANGED drawVars
    /\ UNCHANGED <<sqVars, hist>>
    /\ UNCHANGED <<isPlaying, isPaused, status, playDisabled, pauseDisabled, errorShown>>

\* the tempo slider
TempoInput ==
  \E b \in Tempos :
    /\ b # bpm
    /\ Becomes(setTempo(Cur, b))
    /\ Did("tempoInput")
    /\ UNCHANGED drawVars
    /\ UNCHANGED <<appVars, hist>>

\* the handlers of the App and the continuations of the starts it made
AppHandlers ==
  \/ PlayResume
  \/ PlayNothing
  \/ PlayStart
  \/ PlayResumed
  \/ StartResumed
  \/ ClickPause
  \/ ClickStop
  \/ ClickClear
  \/ InputLive
  \/ InputStaged
  \/ TempoInput

AppNext ==
  \/ AppHandlers
  \/ Tick
  \/ Advance

AppSpec == AppInit /\ [][AppNext]_vars

\* the audio clock keeps ticking and a resolved promise runs its continuation
\* the App on a page that may load with the pause button enabled
AnyPageSpec == AnyPageInit /\ [][AppNext]_vars

FairAppSpec ==
  AppSpec /\ WF_vars(Tick) /\ WF_vars(StartResumed) /\ WF_vars(PlayResumed)

\* ------------------------------------------------------------- the display
DisplayNext ==
  \/ AppHandlers
  \/ TickDeferred
  \/ Deliver
  \/ Advance

\* the App with the step notifications of Tone.Draw running in their own
\* animation frames, between the other events
DisplaySpec == AppInit /\ [][DisplayNext]_vars

\* ------------------------------------------------- the parser on its own
\* the lines a source text is put together from
\* "drums: kick snare"
LineDrums ==
  <<"d","r","u","m","s",":"," ","k","i","c","k"," ","s","n","a",
    "r","e">>
\* "DRUMS : clap  -\thihat "
LineDrumsLoose ==
  <<"D","R","U","M","S"," ",":"," ","c","l","a","p"," "," ","-",
    "\t","h","i","h","a","t"," ">>
\* "Bass: C2 - E2"
LineBass ==
  <<"B","a","s","s",":"," ","C","2"," ","-"," ","E","2">>
\* "sYnTh:C4 xyz"
LineSynth ==
  <<"s","Y","n","T","h",":","C","4"," ","x","y","z">>
\* "piano: C4"
LinePiano ==
  <<"p","i","a","n","o",":"," ","C","4">>
\* " \t"
LineBlank ==
  <<" ","\t">>
\* "  //bass: C2"
LineCommentIndented ==
  <<" "," ","/","/","b","a","s","s",":"," ","C","2">>
\* " drums: kick"
LineIndented ==
  <<" ","d","r","u","m","s",":"," ","k","i","c","k">>
\* "synth:"
LineNoNotes ==
  <<"s","y","n","t","h",":">>
\* "drums:  "
LineOnlySpaces ==
  <<"d","r","u","m","s",":"," "," ">>
\* "bass: C2\r"
LineReturn ==
  <<"b","a","s","s",":"," ","C","2","\r">>
CompilerLines ==
  {LineDrums, LineDrumsLoose, LineBass, LineSynth, LinePiano, LineBlank,
   LineCommentIndented, LineIndented, LineNoNotes, LineOnlySpaces, LineReturn}

\* the number of lines code.split('\n') gives
NumLines(code) == Len(SplitLines(code))

\* one more line is given to the parser: the text so far, a line break and
\* the line, compiled by Sequencer.updatePatterns on the stopped transport
TypeLineOf(lines, n) ==
  \E line \in lines :
    LET code == IF op.name = "init" THEN line ELSE editor \o <<"\n">> \o line IN
    /\ NumLines(code) <= n
    /\ editor' = code
    /\ Becomes(updatePatterns(Cur, code))
    /\ Did("typeLine")
    /\ UNCHANGED drawVars
    /\ UNCHANGED <<isPlaying, isPaused, status, playDisabled, pauseDisabled,
                   errorShown, hist>>

TypeLineUpTo(n) == TypeLineOf(CompilerLines, n)

TypeLine == TypeLineUpTo(MaxLines)

CompilerNext == TypeLine

\* the parser applied to every text of up to MaxLines lines
CompilerSpec == Init /\ [][CompilerNext]_vars

\* ----------------------------------------------- the dispatch on its own
\* "drums: KICK boom"
LineDrumsOdd ==
  <<"d","r","u","m","s",":"," ","K","I","C","K"," ","b","o","o","m">>

\* "bass: c#3 H2 Cb9"
LineBassOdd ==
  <<"b","a","s","s",":"," ","c","#","3"," ","H","2"," ","C","b","9">>

DispatchLines == CompilerLines \cup {LineDrumsOdd, LineBassOdd}

TypeShortLine == TypeLineOf(DispatchLines, MaxDispatchLines)

\* Sequencer.playStep called for one step and one audio time
Dispatch ==
  \E step \in 0..MaxStep, time \in DispatchTimes :
    /\ op' = [name |-> "playStep", was |-> transportState, step |-> currentStep,
              bpm |-> bpm]
    /\ lastTick' = [NoTick EXCEPT !.step = step, !.pats = patterns,
                                  !.calls = playStep(patterns, step, time),
                                  !.triggers = Triggers(playStep(patterns, step, time)),
                                  !.time = time]
    /\ UNCHANGED <<sqVars, appVars, drawVars, hist>>

\* AudioEngine.playDrum called with a token of the Pattern Set, of any track
Audition ==
  \E tr \in DOMAIN patterns, time \in DispatchTimes :
    \E k \in 1..Len(patterns[tr]) :
      /\ op' = [name |-> "playDrum", was |-> transportState, step |-> currentStep,
                bpm |-> bpm]
      /\ lastTick' = [NoTick EXCEPT
                        !.pats = patterns,
                        !.calls = <<[method |-> "playDrum", note |-> patterns[tr][k],
                                     time |-> time]>>,
                        !.triggers = playDrum(patterns[tr][k], time),
                        !.time = time]
      /\ UNCHANGED <<sqVars, appVars, drawVars, hist>>

DispatchNext == TypeShortLine \/ Dispatch \/ Audition

\* playStep applied to every Pattern Set compiled from up to MaxDispatchLines
\* lines, every step up to MaxStep and the times of DispatchTimes
DispatchSpec == Init /\ [][DispatchNext]_vars

\* ------------------------------------------------------------------ claims

\* the Sequencer method that produced the state, called directly or by the App
DidStop == op.name \in {"stop", "clickStop"}
DidPause == op.name \in {"pause", "clickPause"}
DidResume == op.name \in {"resume", "playResume"}
DidSwap == op.name \in {"updatePatterns", "inputLive", "playStart"} /\ op.was = "started"
DidStartResumed == op.name \in {"startResumed", "playResumed"}
DidTick == op.name = "tick"

\* C1: after stop() or pause() has returned, no tick is dispatched until a
\* later start(), resume() or live pattern swap is requested
C1_NoTickAfterHalt == DidTick => ~lastTick.hist.halted

\* C2: at most one scheduled loop is live, it is the one the Sequencer holds,
\* and a transport position is dispatched by one loop only
C2_OneLiveLoop ==
  /\ Cardinality(loops) <= 1
  /\ loops \subseteq {sequence}
  /\ DidTick => lastTick.count = 1

C2_Witness ==
  /\ DidTick
  /\ lastTick.loop.id = 1
  /\ starts # << >>

\* C3: every tick dispatches against the Pattern Set its loop was built from
C3_TickUsesLoopPatterns == DidTick => lastTick.pats = lastTick.loop.from

\* C4: stop() from any transport state leaves the transport Stopped, the step
\* index 0 and the loop disposed and null
C4_StopResets ==
  DidStop =>
    /\ transportState = "stopped"
    /\ currentStep = 0
    /\ sequence = NoSequence
    /\ loops = {}

C4_Witness ==
  /\ DidStop
  /\ op.was = "paused"
  /\ op.step > 0

\* C5: pause() when not Running and resume() when not Paused change nothing
C5_NoOpsOutsideTheirState ==
  [][(\/ DidPause' /\ transportState # "started"
      \/ DidResume' /\ transportState # "paused")
     => UNCHANGED <<transportState, currentStep, sequence, patterns, maxSteps,
                    position, loops>>]_vars

C7_EmptyStartStaysStopped ==
  DidStartResumed /\ op.was = "stopped" /\ maxSteps = 0 =>
    /\ sequence = NoSequence
    /\ transportState = "stopped"
    /\ op.name = "playResumed" => status # "playing"

\* C8: updatePatterns while Running with a non-empty Pattern Set disposes the
\* old loop, resets the step index to 0 and leaves the tempo alone; when the
\* restart goes on after its await the transport is Running on a loop built
\* from the Pattern Set, and the first tick after the swap is step 0
C8_SwapRestartsAtStepZero ==
  /\ DidSwap /\ maxSteps > 0 =>
       /\ sequence = NoSequence
       /\ loops = {}
       /\ currentStep = 0
       /\ bpm = op.bpm
       /\ patterns = parse(hist.text)
       /\ starts # << >> /\ "restart" \in {starts[i] : i \in 1..Len(starts)}
  /\ DidStartResumed /\ maxSteps > 0 =>
       /\ transportState = "started"
       /\ sequence # NoSequence /\ sequence.from = patterns
       /\ loops = {sequence}
       /\ bpm = op.bpm
  /\ DidTick /\ lastTick.hist.swapped =>
       /\ lastTick.step = 0
       /\ lastTick.pats = parse(lastTick.hist.text)

C8_Witness ==
  /\ op.name = "tick"
  /\ lastTick.hist.swapped
  /\ op.step > 0
  /\ lastTick.pats = parse(TextBassSynth)

C10_LiveEditIsHeard ==
  \A text \in EditorTexts :
    (op.name = "inputLive" /\ maxSteps > 0 /\ editor = text)
      ~> (\/ DidTick /\ lastTick.pats = parse(text)
          \/ editor # text
          \/ op.name \in {"clickPause", "clickStop", "playResume", "playNothing",
                          "playStart"})

\* ---- C11
TrackIds == {"drums", "bass", "synth"}

MethodOf(tr) ==
  CASE tr = "drums" -> "playDrum"
    [] tr = "bass"  -> "playBass"
    [] tr = "synth" -> "playSynth"

\* the audio engine calls of the last dispatch that went to one track
CallsFor(tr) == SelectSeq(lastTick.calls, LAMBDA c : c.method = MethodOf(tr))

\* the track has a token other than the rest at the dispatched step
Sounds(tr) ==
  /\ tr \in DOMAIN lastTick.pats
  /\ lastTick.step < Len(lastTick.pats[tr])
  /\ lastTick.pats[tr][lastTick.step + 1] # Rest

DidDispatch == op.name \in {"tick", "playStep"}

\* C11: dispatching step s on a Pattern Set calls the audio engine exactly
\* once for every track that is present, is longer than s and holds a token
\* other than '-' at s, with that token and the dispatch time, and not at all
\* for a track that is absent, holds '-' at s or ends before s (no wrapping)
C11_DispatchPerTrack ==
  DidDispatch =>
    /\ \A tr \in TrackIds :
         CallsFor(tr) =
           IF Sounds(tr)
           THEN <<[method |-> MethodOf(tr),
                   note |-> lastTick.pats[tr][lastTick.step + 1],
                   time |-> lastTick.time]>>
           ELSE << >>
    /\ \A i \in 1..Len(lastTick.calls) :
         \E tr \in TrackIds : lastTick.calls[i].method = MethodOf(tr)

\* step 2 of "drums: kick snare" over "Bass: C2 - E2" at time 5: the drums
\* have ended, the bass plays E2 and there is no synth
C11_Witness ==
  /\ op.name = "playStep"
  /\ lastTick.step = 2
  /\ lastTick.time = 5
  /\ DOMAIN lastTick.pats = {"drums", "bass"}
  /\ Len(lastTick.pats["drums"]) = 2
  /\ lastTick.calls = <<[method |-> "playBass", note |-> <<"E", "2">>, time |-> 5]>>

\* ---- C12
\* C12: the step index is never negative and is below the Cycle Length of the
\* active Pattern Set whenever that is positive, and a tick that follows
\* another tick of the same run carries the step after it modulo that
\* Cycle Length
C12_StepWithinCycle ==
  /\ currentStep >= 0
  /\ maxSteps > 0 => currentStep < maxSteps
  /\ DidTick /\ lastTick.hist.ticked =>
       /\ maxSteps > 0
       /\ lastTick.step = (op.step + 1) % maxSteps

\* ---- C13
DidSetTempo == op.name \in {"setTempo", "tempoInput"}

\* C13: setTempo changes the tempo and nothing else: the transport state and
\* position, the step index, the Pattern Set, the Cycle Length, the loop
\* installed and the pending starts stay as they are and nothing is dispatched
C13_TempoChangesOnlyTempo ==
  [][DidSetTempo' =>
       /\ bpm' \in Tempos
       /\ bpm' # bpm
       /\ UNCHANGED <<patterns, currentStep, maxSteps, sequence, transportState,
                      position, loops, starts>>
       /\ lastTick' = NoTick]_vars

\* the tempo goes from 120 to 90 while Running at step 2
C13_Witness ==
  /\ op.name = "setTempo"
  /\ op.was = "started"
  /\ transportState = "started"
  /\ op.bpm = 120
  /\ bpm = 90
  /\ currentStep = 2
  /\ sequence \in loops

\* ---- C14
\* C14: the call of start() itself installs no loop, leaves the transport
\* alone and dispatches nothing, it only suspends at the activation of the
\* audio context; a loop is installed only by the continuation of a suspended
\* start() once that activation has resolved
C14_StartWaitsForAudio ==
  [][/\ op'.name = "start" =>
          /\ UNCHANGED <<patterns, currentStep, maxSteps, sequence,
                         transportState, position, bpm, loops>>
          /\ starts' = Append(starts, "call")
          /\ lastTick' = NoTick
     /\ (sequence' # sequence /\ sequence' # NoSequence) =>
          /\ DidStartResumed'
          /\ starts # << >>
          /\ starts' = Tail(starts)]_vars

\* start() was called on a stopped Sequencer that holds a Pattern Set: the
\* call is suspended, no loop exists and the transport is still stopped
C14_Witness ==
  /\ op.name = "start"
  /\ maxSteps > 0
  /\ starts # << >>
  /\ sequence = NoSequence
  /\ loops = {}
  /\ transportState = "stopped"

\* ---- C15
\* the lines of the text that was compiled
SourceLines == SplitLines(editor)

\* the lines the parser's pattern matches for a track, and the last of them
LinesFor(tr) ==
  {i \in 1..Len(SourceLines) : LineMatch(SourceLines[i]).track = tr}

LastLineFor(tr) ==
  LET found == LinesFor(tr)
  IN  SourceLines[CHOOSE i \in found : \A j \in found : j <= i]

\* C15: the Pattern of a track is what its last matching line compiles to on
\* its own, however many lines match the track and whatever lines match
\* other tracks; a track no line matches is absent
C15_LastLineWins ==
  \A tr \in TrackIds :
    IF LinesFor(tr) = {} THEN tr \notin DOMAIN patterns
    ELSE /\ tr \in DOMAIN patterns
         /\ patterns[tr] = parse(LastLineFor(tr))[tr]

\* "Bass: C2 - E2", "drums: kick snare", "DRUMS : clap  -\thihat ": the drums
\* are those of the third line, the bass is kept
C15_Witness ==
  /\ SourceLines = <<LineBass, LineDrums, LineDrumsLoose>>
  /\ DOMAIN patterns = {"drums", "bass"}
  /\ patterns["drums"] = <<<<"c","l","a","p">>, <<"-">>, <<"h","i","h","a","t">>>>
  /\ patterns["bass"] = <<<<"C","2">>, <<"-">>, <<"E","2">>>>

\* ---- C16
RECURSIVE JoinLines(_)
JoinLines(lines) ==
  IF lines = << >> THEN << >>
  ELSE IF Len(lines) = 1 THEN Head(lines)
  ELSE Head(lines) \o <<"\n">> \o JoinLines(Tail(lines))

HasColon(line) == \E i \in 1..Len(line) : line[i] = ":"

FirstColon(line) ==
  CHOOSE i \in 1..Len(line) : line[i] = ":" /\ \A j \in 1..(i - 1) : line[j] # ":"

BeforeColon(line) == SubSeq(line, 1, FirstColon(line) - 1)
AfterColon(line) == SubSeq(line, FirstColon(line) + 1, Len(line))

\* the word in front of the colon, without the whitespace between the two
NameOf(line) == TrimRight(BeforeColon(line))

IsBlankLine(line) == \A i \in 1..Len(line) : IsSpace(line[i])

IsCommentLine(line) == StartsWith(TrimLeft(line), CommentMarker)

\* name, colon, tokens: the line starts with one word, a colon follows it and
\* something follows the colon
HasShape(line) ==
  /\ HasColon(line)
  /\ NameOf(line) # << >>
  /\ \A i \in 1..Len(NameOf(line)) : ~IsSpace(NameOf(line)[i])
  /\ AfterColon(line) # << >>

IsRecognised(line) == \E tr \in TrackIds : ToLower(NameOf(line)) = TrackWord(tr)

IsSkipped(line) ==
  \/ IsBlankLine(line)
  \/ IsCommentLine(line)
  \/ ~HasShape(line)
  \/ ~IsRecognised(line)

\* C16: blank lines, comment lines, lines that are not name, colon, tokens
\* and lines with a name that is no track contribute nothing: the text
\* compiles to what it compiles to with those lines taken out
C16_SkippedLinesContributeNothing ==
  patterns = parse(JoinLines(SelectSeq(SourceLines, LAMBDA l : ~IsSkipped(l))))

\* a comment that looks like a bass line, a drums line and a line for an
\* unknown track: only the drums are compiled
C16_Witness ==
  /\ SourceLines = <<LineCommentIndented, LineDrums, LinePiano>>
  /\ DOMAIN patterns = {"drums"}
  /\ Len(patterns["drums"]) = 2

\* ---- C17
IsRunStart(s, i) == ~IsSpace(s[i]) /\ (i = 1 \/ IsSpace(s[i - 1]))

RunStarts(s) == {i \in 1..Len(s) : IsRunStart(s, i)}

\* the run of characters other than whitespace that starts at i
RunAt(s, i) ==
  SubSeq(s, i, CHOOSE e \in i..Len(s) :
                 /\ \A j \in i..e : ~IsSpace(s[j])
                 /\ (e = Len(s) \/ IsSpace(s[e + 1])))

\* the maximal runs of characters other than whitespace, left to right
Words(s) ==
  LET runs == RunStarts(s)
  IN  [k \in 1..Cardinality(runs) |->
         RunAt(s, CHOOSE i \in runs :
                    Cardinality({j \in runs : j <= i}) = k)]

\* C17: the keys of a compiled Pattern Set are Track Ids, no token is empty
\* or holds whitespace, and the Pattern of a track is the whitespace
\* separated words that follow the colon of its source line, all of them, in
\* order and as written
C17_TokensAsWritten ==
  /\ DOMAIN patterns \subseteq TrackIds
  /\ \A tr \in DOMAIN patterns :
       /\ \A k \in 1..Len(patterns[tr]) :
            /\ patterns[tr][k] # << >>
            /\ \A i \in 1..Len(patterns[tr][k]) : ~IsSpace(patterns[tr][k][i])
       /\ patterns[tr] = Words(AfterColon(LastLineFor(tr)))

\* "sYnTh:C4 xyz" and "DRUMS : clap  -\thihat ": xyz is kept, the double
\* space and the tab separate
C17_Witness ==
  /\ SourceLines = <<LineSynth, LineDrumsLoose>>
  /\ patterns["synth"] = <<<<"C","4">>, <<"x","y","z">>>>
  /\ patterns["drums"] = <<<<"c","l","a","p">>, <<"-">>, <<"h","i","h","a","t">>>>

\* ---- C18
\* the line with everything in front of its first colon in lower case
LowerName(line) ==
  IF HasColon(line)
  THEN ToLower(BeforeColon(line)) \o <<":">> \o AfterColon(line)
  ELSE line

LowerNames(lines) == [i \in 1..Len(lines) |-> LowerName(lines[i])]

\* C18: a text compiles to what it compiles to with every track name written
\* in lower case, and the Patterns are stored under the lower-case Track Ids
C18_TrackNameCaseIgnored ==
  /\ patterns = parse(JoinLines(LowerNames(SourceLines)))
  /\ DOMAIN patterns \subseteq TrackIds

\* "DRUMS : ..." and "sYnTh: ..." are compiled as drums and synth
C18_Witness ==
  /\ SourceLines = <<LineDrumsLoose, LineSynth>>
  /\ DOMAIN patterns = {"drums", "synth"}
  /\ LowerNames(SourceLines) # SourceLines

\* ---- C19
\* the greatest length of a Pattern of the set, 0 for the empty set
LongestPattern(pats) ==
  IF DOMAIN pats = {} THEN 0
  ELSE CHOOSE n \in {Len(pats[tr]) : tr \in DOMAIN pats} :
         \A tr \in DOMAIN pats : Len(pats[tr]) <= n

\* C19: the Cycle Length is the greatest Pattern length of the Pattern Set, 0
\* when it has no track, and maxSteps is the Cycle Length of the Pattern Set
\* the Sequencer holds after every updatePatterns
C19_CycleLengthIsLongest ==
  /\ getMaxPatternLength(patterns) = LongestPattern(patterns)
  /\ maxSteps = LongestPattern(patterns)

\* three drums and two synth notes compile to a cycle of three
C19_Witness ==
  /\ op.name = "typeLine"
  /\ SourceLines = <<LineBlank, LineDrumsLoose, LineSynth>>
  /\ Len(patterns["drums"]) = 3
  /\ Len(patterns["synth"]) = 2
  /\ maxSteps = 3

\* ---- C21
\* the step is a tick, or an animation frame that delivers a notification
IsTickStep == position' = position + 1 /\ lastTick'.count > 0

IsFrameStep == draws # << >> /\ draws' = Tail(draws)

\* C21: every tick leaves one notification of its step behind the ones that
\* wait already, notifications are delivered oldest first and only by an
\* animation frame, and the Pattern Set given to the callback (this.patterns
\* at the frame) is the one the tick was dispatched against, so that the step
\* is below its Cycle Length, whatever happened between tick and frame
C21_NotificationMatchesTick ==
  [][/\ IsTickStep =>
          draws' = Append(draws, [step |-> lastTick'.step, pats |-> lastTick'.pats])
     /\ IsFrameStep =>
          /\ patterns = Head(draws).pats
          /\ Head(draws).step < getMaxPatternLength(patterns)
     /\ draws' # draws => IsTickStep \/ IsFrameStep]_vars

\* ---- C22
\* the track a trigger belongs to is the track of the token: playStep calls
\* playDrum, playBass and playSynth for drums, bass and synth
\* C22: a token that isValidNote rejects for its track triggers no instrument
\* when its step is dispatched, on the drums and on the bass and synth alike
C22_InvalidTokensAreInert ==
  DidDispatch =>
    \A i \in 1..Len(lastTick.triggers) :
      isValidNote(lastTick.triggers[i].note, lastTick.triggers[i].track)

\* ---- C25
\* the playDrum calls of the last dispatch or audition, and the triggers of
\* the drums they led to
DrumCalls == SelectSeq(lastTick.calls, LAMBDA c : c.method = "playDrum")

DrumTriggers == SelectSeq(lastTick.triggers, LAMBDA t : t.track = "drums")

\* C25: for a token other than '-' isValidNote(x, 'drums') holds exactly when
\* playDrum(x) triggers an instrument; '-' is valid for every track, playDrum
\* triggers nothing for it and no instrument is ever triggered with it
C25_ValidatorAgreesWithDrums ==
  /\ \A tr \in TrackIds : isValidNote(Rest, tr)
  /\ op.name \in {"playDrum", "playStep"} =>
       /\ \A i \in 1..Len(DrumCalls) :
            IF DrumCalls[i].note = Rest THEN DrumTriggers = << >>
            ELSE isValidNote(DrumCalls[i].note, "drums") <=>
                   DrumTriggers = Trigger("drums", DrumCalls[i].note, DrumCalls[i].time)
       /\ \A i \in 1..Len(lastTick.triggers) : lastTick.triggers[i].note # Rest

\* playDrum("KICK") of "drums: KICK boom" triggers the kick
C25_Witness ==
  /\ op.name = "playDrum"
  /\ SourceLines = <<LineDrumsOdd>>
  /\ lastTick.calls[1].note = <<"K","I","C","K">>
  /\ Len(lastTick.triggers) = 1

\* playDrum("boom") triggers nothing
C25_WitnessUnknown ==
  /\ op.name = "playDrum"
  /\ lastTick.calls[1].note = <<"b","o","o","m">>
  /\ lastTick.triggers = << >>

\* ---- C23
\* the status the App holds in isPlaying and isPaused
AppStatus ==
  IF ~isPlaying THEN "stopped" ELSE IF isPaused THEN "paused" ELSE "playing"

\* the status that stands for a transport state
StatusOf(state) == IF state = "started" THEN "playing" ELSE state

\* C23: when no start is in flight, the status the App holds and the status
\* it displays are those of the transport: playing for Running, paused for
\* Paused, stopped for Stopped
C23_StatusMatchesTransport ==
  starts = << >> =>
    /\ AppStatus = StatusOf(transportState)
    /\ status = StatusOf(transportState)

\* ---- C24
\* C24: whenever the transport is Running the Sequencer holds a loop that is
\* scheduled (not disposed) and the Cycle Length of its Pattern Set is
\* greater than 0
C24_RunningHasLoop ==
  transportState = "started" =>
    /\ sequence # NoSequence
    /\ sequence \in loops
    /\ maxSteps > 0

====
